---- MODULE Spec2Model ----
(***************************************************************************)
(* Model of generate-actions.py: the expansion of the platform matrix into *)
(* the job mapping of the two GitHub workflows (make_jobs) and the writer  *)
(* of the two workflow documents (main).                                   *)
(*                                                                         *)
(* Python strings are TLA+ strings; f-strings are concatenations (\o).     *)
(* A Python dict is a sequence of entries in insertion order; assigning to *)
(* an existing key replaces the value in place (DictSet).  A step or job   *)
(* dict is a record whose absent keys hold "" or << >>.  Script text that  *)
(* depends on no input is abbreviated to its first line.                   *)
(***************************************************************************)
EXTENDS Integers, Sequences, FiniteSets, TLC

VARIABLES
    source_machines,      \* make_jobs: the list of (os, arch, runner)
    target_machines,      \* make_jobs: the list of (arch, runner or None)
    pc,                   \* position of the process in main / make_jobs
    run,                  \* which invocation of the generator this is
    release,              \* make_jobs argument
    version,              \* make_jobs argument
    ti,                   \* index of the outer loop (target_machines)
    si,                   \* index of the inner loop (source_machines)
    jobs,                 \* make_jobs: the job mapping, in insertion order
    releasable_artifacts, \* make_jobs: list of ReleasableArtifact
    test_build_jobs,      \* make_jobs: target_arch -> (os, arch) -> info
    test_jobs,            \* make_jobs: list of test job names
    emitted,              \* history: every `jobs[name] = ...`, in order
    build_yaml,           \* the file .github/workflows/build.yaml
    release_yaml,         \* the file .github/workflows/release.yaml
    first_run,            \* history: the two files as the first run left them
    workflow,             \* CI: the job mapping of the workflow being run
    status                \* CI: the state of each job of `workflow`

vars == <<source_machines, target_machines, pc, run, release, version, ti, si,
          jobs, releasable_artifacts, test_build_jobs, test_jobs, emitted,
          build_yaml, release_yaml, first_run, workflow, status>>

(***************************************************************************)
(* Bounds.                                                                 *)
(***************************************************************************)
\* Number of times the generator is run one after the other.
MaxRuns == 2

(***************************************************************************)
(* Python values.                                                          *)
(***************************************************************************)
\* None, as an f-string formats it.
None == "None"

\* The exception a `raise` leaves instead of a value.
ValueError == "ValueError"

RECURSIVE str_replace_dot(_)
\* s.replace(".", "_")
str_replace_dot(s) ==
    IF Len(s) = 0 THEN ""
    ELSE (IF SubSeq(s, 1, 1) = "." THEN "_" ELSE SubSeq(s, 1, 1))
         \o str_replace_dot(SubSeq(s, 2, Len(s)))

\* s.removesuffix(suffix)
str_removesuffix(s, suffix) ==
    IF Len(s) >= Len(suffix) /\ SubSeq(s, Len(s) - Len(suffix) + 1, Len(s)) = suffix
    THEN SubSeq(s, 1, Len(s) - Len(suffix))
    ELSE s

\* sub in s
str_contains(s, sub) ==
    \E i \in 1..(Len(s) - Len(sub) + 1) : SubSeq(s, i, i + Len(sub) - 1) = sub

\* key in d, for a dict d kept as a sequence of records with a `name` key.
DictHas(d, key) == \E i \in 1..Len(d) : d[i].name = key

\* d[key]
DictGet(d, key) == d[CHOOSE i \in 1..Len(d) : d[i].name = key]

\* The position of key in d.
DictIndex(d, key) == CHOOSE i \in 1..Len(d) : d[i].name = key

\* d[key] = value, where value.name = key: a new key goes last, an existing
\* key keeps its position and takes the new value.
DictSet(d, value) ==
    IF DictHas(d, value.name)
    THEN [d EXCEPT ![DictIndex(d, value.name)] = value]
    ELSE Append(d, value)

(***************************************************************************)
(* class Architecture, class OS.  The enums are closed; UnwiredArch stands *)
(* for a member added to Architecture without a case in any derivation.    *)
(***************************************************************************)
Architecture == {"ARM64", "X86_64"}

UnwiredArch == "RISCV64"

OS == {"Linux", "MacOS"}

\* A faulty variant: ARM64 takes its Bazel name.
Architecture_for_musl_bazel_name(a) ==
    CASE a = "ARM64" -> "arm64"
      [] a = "X86_64" -> "x86_64"
      [] OTHER -> None

Architecture_for_musl(a) ==
    CASE a = "ARM64" -> "aarch64"
      [] a = "X86_64" -> "x86_64"
      [] OTHER -> None

Architecture_for_bazel_platform(a) ==
    CASE a = "ARM64" -> "arm64"
      [] a = "X86_64" -> "x86_64"
      [] OTHER -> None

Architecture_for_bazel_download(a) ==
    CASE a = "X86_64" -> "amd64"
      [] a = "ARM64" -> "arm64"
      [] OTHER -> ValueError

OS_for_musl(o) ==
    CASE o = "Linux" -> "unknown-linux-gnu"
      [] o = "MacOS" -> "apple-darwin"
      [] OTHER -> None

OS_for_bazel_platform(o) ==
    CASE o = "Linux" -> "linux"
      [] o = "MacOS" -> "osx"
      [] OTHER -> None

OS_for_bazel_download(o) ==
    CASE o = "Linux" -> "linux"
      [] o = "MacOS" -> "darwin"
      [] OTHER -> None

(***************************************************************************)
(* Steps.                                                                  *)
(***************************************************************************)
Step(name, uses, runText, with_name, with_path) ==
    [name |-> name, uses |-> uses, run |-> runText,
     with_name |-> with_name, with_path |-> with_path]

checkout == Step("Checkout repo", "actions/checkout@v4", "", "", "")

check_generated_files ==
    Step("Check generated files are up to date", "",
         "python3 generate-actions.py && git diff --exit-code", "", "")

install_bazel(os, arch) ==
    Step("Skipping downloading bazelisk - already installed", "",
         "bazel --version", "", "")

upload(name, path) ==
    Step("Upload " \o name, "actions/upload-artifact@v4", "", name, path)

download(name) ==
    Step("Download " \o name, "actions/download-artifact@v4", "", name, ".")

get_platform_sha256sum(os) ==
    CASE os = "Linux" -> "sha256sum"
      [] os = "MacOS" -> "shasum -a 256"
      [] OTHER -> None

\* os.path.join("output", filename)
output_path(filename) == "output/" \o filename

(***************************************************************************)
(* Runners.                                                                *)
(***************************************************************************)
install_musl_steps ==
    << Step("Install musl", "",
            "sudo apt-get update && sudo apt-get install -y musl-dev musl-tools", "", ""),
       Step("", "", "sudo ln -s /usr/bin/tar /usr/bin/gnutar", "", "") >>

setup_darwin_steps ==
    << Step("", "", "brew install wget md5sha1sum gnu-tar", "", "") >>

BaseRunner(runs_on, build_setup_steps, test_setup_steps) ==
    [runs_on |-> runs_on, build_setup_steps |-> build_setup_steps,
     test_setup_steps |-> test_setup_steps]

linux_x86_64_runner == BaseRunner("ubuntu-24.04", install_musl_steps, << >>)

linux_aarch64_runner == BaseRunner("ubuntu-24.04-arm", install_musl_steps, << >>)

darwin_x86_64_runner == BaseRunner("macos-13", setup_darwin_steps, << >>)

darwin_aarch64_runner == BaseRunner("macos-15", setup_darwin_steps, << >>)

(***************************************************************************)
(* Names and generated file contents.                                      *)
(***************************************************************************)
RECURSIVE str_join(_, _)
\* sep.join(parts)
str_join(sep, parts) ==
    IF Len(parts) = 0 THEN ""
    ELSE IF Len(parts) = 1 THEN parts[1]
    ELSE parts[1] \o sep \o str_join(sep, Tail(parts))

\* A faulty variant: the filename leaves the source OS out.
musl_filename_without_source_os(source_os, source_arch, target_arch) ==
    "musl-1.2.3-platform-" \o Architecture_for_musl(source_arch)
    \o "-target-" \o Architecture_for_musl(target_arch) \o "-linux-musl"

musl_filename_without_extension(source_os, source_arch, target_arch) ==
    "musl-1.2.3-platform-" \o Architecture_for_musl(source_arch) \o "-"
    \o OS_for_musl(source_os) \o "-target-" \o Architecture_for_musl(target_arch)
    \o "-linux-musl"

musl_toolchain_target_name(source_os, source_arch, target_arch) ==
    str_replace_dot(musl_filename_without_extension(source_os, source_arch, target_arch))

\* A faulty variant: the repository is named after the target only.
repo_name_of_target_only(artifact) ==
    "musl-1_2_3-target-" \o Architecture_for_musl(artifact.target_arch) \o "-linux-musl"

\* ReleasableArtifact.repo_name
repo_name(artifact) ==
    str_replace_dot(str_removesuffix(artifact.musl_filename, ".tar.gz"))

download_url_for(filename, v) ==
    "https://github.com/bazel-contrib/musl-toolchain/releases/download/"
    \o v \o "/" \o filename

\* ' + """ + repr(' + expr + ') + """'
repr_splice(expr) == " + \"\"\" + repr(" \o expr \o ") + \"\"\""

generate_toolchain(name, source_arch, source_os, target_arch, wrap_in_triple_quotes, extra_exec_compatible_expr, extra_target_compatible_expr, target_settings_expr) ==
    IF ~wrap_in_triple_quotes
       /\ (extra_exec_compatible_expr # "" \/ extra_target_compatible_expr # ""
           \/ target_settings_expr # "")
    THEN "RuntimeError"
    ELSE
        (IF wrap_in_triple_quotes THEN "\"\"\"" ELSE "")
        \o "toolchain(\n    name = \"" \o name \o "\",\n    exec_compatible_with = [\n"
        \o "        \"@platforms//cpu:" \o Architecture_for_bazel_platform(source_arch) \o "\",\n"
        \o "        \"@platforms//os:" \o OS_for_bazel_platform(source_os) \o "\",\n    ]"
        \o (IF extra_exec_compatible_expr # "" THEN repr_splice(extra_exec_compatible_expr) ELSE "")
        \o ",\n    target_compatible_with = [\n"
        \o "        \"@platforms//cpu:" \o Architecture_for_bazel_platform(target_arch) \o "\",\n"
        \o "        \"@platforms//os:linux\",\n    ]"
        \o (IF extra_target_compatible_expr # "" THEN repr_splice(extra_target_compatible_expr) ELSE "")
        \o (IF target_settings_expr # ""
            THEN ",\n    target_settings = " \o "\"\"\" + repr(" \o target_settings_expr \o ") + \"\"\""
            ELSE "")
        \o ",\n    toolchain = \"@" \o name \o "\",\n"
        \o "    toolchain_type = \"@bazel_tools//tools/cpp:toolchain_type\",\n)\n"
        \o (IF wrap_in_triple_quotes THEN "\"\"\"" ELSE "")

generate_test_toolchain(name, target_arch, wrap_in_triple_quotes, extra_target_compatible_expr, target_settings_expr) ==
    IF ~wrap_in_triple_quotes
       /\ (extra_target_compatible_expr # "" \/ target_settings_expr # "")
    THEN "RuntimeError"
    ELSE
        (IF wrap_in_triple_quotes THEN "\"\"\"" ELSE "")
        \o "toolchain(\n    name = \"" \o name \o "_test_toolchain\",\n    exec_compatible_with = [\n"
        \o "        \"@platforms//cpu:" \o Architecture_for_bazel_platform(target_arch) \o "\",\n"
        \o "        \"@platforms//os:linux\",\n    ]"
        \o ",\n    target_compatible_with = [\n"
        \o "        \"@platforms//cpu:" \o Architecture_for_bazel_platform(target_arch) \o "\",\n"
        \o "        \"@platforms//os:linux\",\n    ]"
        \o (IF extra_target_compatible_expr # "" THEN repr_splice(extra_target_compatible_expr) ELSE "")
        \o (IF target_settings_expr # ""
            THEN ",\n    target_settings = " \o "\"\"\" + repr(" \o target_settings_expr \o ") + \"\"\""
            ELSE "")
        \o ",\n    toolchain = \"@" \o name \o "//:" \o name \o "_test_toolchain\",\n"
        \o "    toolchain_type = \"@bazel_tools//tools/cpp:test_runner_toolchain_type\",\n)\n"
        \o (IF wrap_in_triple_quotes THEN "\"\"\"" ELSE "")

generate_builder_workspace_config_build_file(source_os, source_arch, target_arch) ==
    LET toolchain_name ==
            str_replace_dot(musl_toolchain_target_name(source_os, source_arch, target_arch))
        content ==
            generate_toolchain(toolchain_name, source_arch, source_os, target_arch,
                               FALSE, "", "", "")
            \o generate_test_toolchain(toolchain_name, target_arch, FALSE, "", "")
            \o "\nplatform(\n    name = \"platform\",\n    constraint_values = [\n"
            \o "        \"@platforms//cpu:" \o Architecture_for_bazel_platform(target_arch) \o "\",\n"
            \o "        \"@platforms//os:linux\",\n    ],\n)\n"
    IN  Step("Generate builder workspace config BUILD.bazel file", "",
             "mkdir -p test-workspaces/builder/config && cat >test-workspaces/builder/config/BUILD.bazel <<EOF\n"
             \o content \o "\nEOF\n", "", "")

generate_builder_workspace_file(source_os, source_arch, target_arch) ==
    LET musl_filename ==
            musl_filename_without_extension(source_os, source_arch, target_arch) \o ".tar.gz"
        repository_name == musl_toolchain_target_name(source_os, source_arch, target_arch)
        content ==
            "load(\"@bazel_tools//tools/build_defs/repo:http.bzl\", \"http_archive\")\n\n"
            \o "http_archive(\n    name = \"" \o repository_name \o "\",\n"
            \o "    sha256 = \"$(" \o get_platform_sha256sum(source_os) \o " " \o musl_filename
            \o " | awk '{print $1}')\",\n"
            \o "    url = \"file://$(pwd)/" \o musl_filename \o "\",\n)\n"
    IN  Step("Generate builder workspace file", "",
             "cat >test-workspaces/builder/WORKSPACE.bazel <<EOF\n" \o content \o "\nEOF\n",
             "", "")

RECURSIVE tester_http_files(_)
\* The loop of generate_tester_workspace_file over test_jobs.items().
tester_http_files(items) ==
    IF Len(items) = 0 THEN ""
    ELSE "\nhttp_file(\n    name = \"built_binary_" \o Architecture_for_musl(items[1].source_arch)
         \o "-" \o OS_for_musl(items[1].source_os) \o "\",\n    executable = True,\n"
         \o "    sha256 = \"$(sha256sum " \o items[1].output \o " | awk '{print $1}')\",\n"
         \o "    url = \"file://$(pwd)/" \o items[1].output \o "\",\n)\n"
         \o tester_http_files(Tail(items))

generate_tester_workspace_file(items) ==
    Step("Generate tester workspace file", "",
         "cat >test-workspaces/tester/WORKSPACE.bazel <<EOF\n"
         \o "load(\"@bazel_tools//tools/build_defs/repo:http.bzl\", \"http_file\")\n"
         \o tester_http_files(items) \o "\nEOF\n", "", "")

http_archive(name, sha256, url) ==
    "http_archive(\n    name = \"" \o name \o "\",\n    sha256 = \"" \o sha256
    \o "\",\n    url = \"" \o url \o "\",\n)\n"

\* The toolchain() declarations of the repository rule, in the order
\* generate_release_archive joins them.
toolchain_declarations(toolchain_infos) ==
    [i \in 1..Len(toolchain_infos) |->
        generate_toolchain(repo_name(toolchain_infos[i]), toolchain_infos[i].source_arch,
                           toolchain_infos[i].source_os, toolchain_infos[i].target_arch, TRUE,
                           "rctx.attr.extra_exec_compatible_with",
                           "rctx.attr.extra_target_compatible_with",
                           "rctx.attr.target_settings")]
    \o [i \in 1..Len(toolchain_infos) |->
        generate_test_toolchain(repo_name(toolchain_infos[i]), toolchain_infos[i].target_arch,
                                TRUE, "rctx.attr.extra_target_compatible_with",
                                "rctx.attr.target_settings")]

\* A faulty variant: the digest of each archive is worked out by the
\* generator and written as a literal.
http_archives_literal_digest(toolchain_infos, v) ==
    [i \in 1..Len(toolchain_infos) |->
        http_archive(repo_name(toolchain_infos[i]),
                     "e3b0c44298fc1c149afbf4c8996fb92427ae41e4649b934ca495991b7852b855",
                     download_url_for(toolchain_infos[i].musl_filename, v))]

\* The http_archive() declarations of repositories.bzl.
http_archives(toolchain_infos, v) ==
    [i \in 1..Len(toolchain_infos) |->
        http_archive(repo_name(toolchain_infos[i]),
                     "$(sha256sum " \o toolchain_infos[i].musl_filename \o " | awk '{print $1}')",
                     download_url_for(toolchain_infos[i].musl_filename, v))]

platforms_version == "0.0.9"

generate_release_archive(toolchain_infos, output, v) ==
    << Step("Generate MODULE.bazel", "",
            "touch MODULE.bazel\n\nversion=\"" \o v \o "\"\n\ncat >MODULE.bazel <<EOF\n"
            \o "module(\n    name = \"toolchains_musl\",\n    version = \"${version#v}\",\n)\n\n"
            \o "bazel_dep(name = \"bazel_features\", version = \"1.9.0\")\n"
            \o "bazel_dep(name = \"platforms\", version = \"" \o platforms_version \o "\")\n",
            "", ""),
       Step("Generate WORKSPACE", "", "touch WORKSPACE\n", "", ""),
       Step("Generate extensions.bzl", "", "touch toolchains_musl.bzl\n", "", ""),
       Step("Generate BUILD.bazel", "", "touch BUILD.bazel", "", ""),
       Step("Generate toolchains.bzl", "", "cat >toolchains.bzl <<EOF\n", "", ""),
       Step("Generate repositories.bzl", "",
            "cat >repositories.bzl <<EOF\n"
            \o "load(\"@bazel_tools//tools/build_defs/repo:http.bzl\", \"http_archive\")\n\n"
            \o "def _toolchain_repo(rctx):\n    rctx.file(\n        \"BUILD.bazel\",\n        "
            \o str_join(" + ", toolchain_declarations(toolchain_infos)) \o ",\n    )\n"
            \o str_join("\n", http_archives(toolchain_infos, v)) \o "EOF\n",
            "", ""),
       Step("Generate bcr_test/.bazelrc", "", "mkdir -p bcr_test\n", "", ""),
       Step("Generate bcr_test/MODULE.bazel", "",
            "mkdir -p bcr_test\ntouch bcr_test/MODULE.bazel\n"
            \o "bazel_dep(name = \"platforms\", version = \"" \o platforms_version \o "\")\n",
            "", ""),
       Step("Generate bcr_test/BUILD.bazel", "", "mkdir -p bcr_test\ntouch bcr_test/BUILD.bazel\n", "", ""),
       Step("Generate bcr_test/binary_test.sh", "", "mkdir -p bcr_test\ntouch bcr_test/binary_test.sh\n", "", ""),
       Step("Generate release archive", "",
            "./deterministic-tar.sh " \o output
            \o " WORKSPACE MODULE.bazel toolchains_musl.bzl toolchains.bzl repositories.bzl BUILD.bazel bcr_test/.bazelrc bcr_test/MODULE.bazel bcr_test/BUILD.bazel bcr_test/binary_test.sh",
            "", ""),
       Step("Run BCR tests", "",
            "sed -i \"s|https://github.com/bazel-contrib/musl-toolchain/releases/download/"
            \o v \o "/|file://$(pwd)/|g\" repositories.bzl\ncd bcr_test\nbazel test ...\n",
            "", "") >>

upload_release_archive_artifact(filename) ==
    Step("Upload release archive", "actions/upload-release-asset@v1", "", filename, filename)

generate_release_body(release_body_path, release_archive_path, v) ==
    Step("Generate release body", "",
         "sha256=$(sha256sum " \o release_archive_path \o " | awk '{print $1}') ; url='"
         \o download_url_for(release_archive_path, v) \o "' ; version='" \o v
         \o "'; sed -e \"s#{sha256}#${sha256}#g\" -e \"s#{url}#${url}#g\" -e \"s|{version}|${version#v}|g\" release.txt.template > "
         \o release_body_path, "", "")

(***************************************************************************)
(* make_jobs: the matrix.                                                  *)
(***************************************************************************)
\* source_machines as the code declares it.
declared_source_machines ==
    << [os |-> "Linux", arch |-> "X86_64", runner |-> linux_x86_64_runner],
       [os |-> "Linux", arch |-> "ARM64", runner |-> linux_aarch64_runner],
       [os |-> "MacOS", arch |-> "X86_64", runner |-> darwin_x86_64_runner],
       [os |-> "MacOS", arch |-> "ARM64", runner |-> darwin_aarch64_runner] >>

target_os == "Linux"

\* target_machines as the code declares it.  The runner is << r >>, or << >>
\* for None (a target architecture released without test).
declared_target_machines ==
    << [arch |-> "X86_64", runner |-> << linux_x86_64_runner >>],
       [arch |-> "ARM64", runner |-> << linux_aarch64_runner >>] >>

(***************************************************************************)
(* make_jobs: names and jobs.                                              *)
(***************************************************************************)
Job(name, runs_on, needs, steps, uses, tag_name) ==
    [name |-> name, runs_on |-> runs_on, needs |-> needs, steps |-> steps,
     uses |-> uses, tag_name |-> tag_name]

check_generated_job ==
    Job("check-generated", "ubuntu-24.04", << >>,
        << checkout, check_generated_files >>, "", "")

\* A faulty variant: the source architecture is left out of the identity.
build_job_name_without_source_arch(source_os, source_arch, target_arch) ==
    OS_for_musl(source_os) \o "-" \o Architecture_for_musl(target_arch)

build_job_name(source_os, source_arch, target_arch) ==
    OS_for_musl(source_os) \o "-" \o Architecture_for_musl(source_arch) \o "-"
    \o Architecture_for_musl(target_arch)

musl_filename(source_os, source_arch, target_arch) ==
    musl_filename_without_extension(source_os, source_arch, target_arch) \o ".tar.gz"

\* A faulty variant: the build job needs nothing.
build_job_needs_nothing == << >>

build_job_needs == << "check-generated" >>

build_job(source, target_arch) ==
    Job(build_job_name(source.os, source.arch, target_arch),
        source.runner.runs_on,
        build_job_needs,
        source.runner.build_setup_steps
        \o << checkout >>
        \o << Step("Build musl", "", "./build.sh " \o Architecture_for_musl(target_arch), "", ""),
              upload(musl_filename(source.os, source.arch, target_arch),
                     output_path(musl_filename(source.os, source.arch, target_arch))) >>,
        "", "")

ReleasableArtifact(source, target_arch) ==
    [build_job_name |-> build_job_name(source.os, source.arch, target_arch),
     source_os |-> source.os,
     source_arch |-> source.arch,
     target_os |-> target_os,
     target_arch |-> target_arch,
     musl_filename |-> musl_filename(source.os, source.arch, target_arch)]

test_build_job_name(source_os, source_arch, target_arch) ==
    OS_for_musl(source_os) \o "-" \o Architecture_for_musl(source_arch) \o "-"
    \o Architecture_for_musl(target_arch) \o "-test-build"

test_build_filename(source_os, source_arch, target_arch) ==
    "test-binary-platform-" \o Architecture_for_musl(source_arch) \o "-"
    \o OS_for_musl(source_os) \o "-target-" \o Architecture_for_musl(target_arch)
    \o "-linux-musl"

\* A faulty variant: the test-build job waits for the test job of its target.
test_build_job_needs_test_job(source, target_arch) ==
    << "test-" \o Architecture_for_musl(target_arch) >>

\* A faulty variant: the test-build job waits for the self-check instead of its build.
test_build_job_needs_check_generated(source, target_arch) ==
    << "check-generated" >>

test_build_job_needs(source, target_arch) ==
    << build_job_name(source.os, source.arch, target_arch) >>

test_build_job(source, target_arch) ==
    Job(test_build_job_name(source.os, source.arch, target_arch),
        source.runner.runs_on,
        test_build_job_needs(source, target_arch),
        source.runner.test_setup_steps
        \o << checkout,
              download(musl_filename(source.os, source.arch, target_arch)),
              install_bazel(source.os, source.arch),
              generate_builder_workspace_file(source.os, source.arch, target_arch),
              generate_builder_workspace_config_build_file(source.os, source.arch, target_arch) >>
        \o (IF source.os = "Linux" /\ source.arch = target_arch
            THEN << Step("Test with musl", "",
                         "cd test-workspaces/builder && bazel test //:test", "", ""),
                    Step("Test with musl (static linking)", "",
                         "cd test-workspaces/builder && bazel test //:test --dynamic_mode=off", "", "") >>
            ELSE << >>)
        \o << Step("Build with musl", "",
                   "cd test-workspaces/builder && bazel build //:binary", "", ""),
              Step("Move test binary", "",
                   "mkdir output && cp test-workspaces/builder/bazel-bin/binary output/"
                   \o test_build_filename(source.os, source.arch, target_arch), "", ""),
              upload(test_build_filename(source.os, source.arch, target_arch),
                     output_path(test_build_filename(source.os, source.arch, target_arch))) >>,
        "", "")

\* test_build_jobs is kept flat: one entry per (target_arch, (source_os,
\* source_arch)) key, in order of first insertion.
test_build_info(source, target_arch) ==
    [target_arch |-> target_arch, source_os |-> source.os, source_arch |-> source.arch,
     job_name |-> test_build_job_name(source.os, source.arch, target_arch),
     output |-> test_build_filename(source.os, source.arch, target_arch)]

SameTestBuildKey(a, b) ==
    a.target_arch = b.target_arch /\ a.source_os = b.source_os /\ a.source_arch = b.source_arch

\* test_build_jobs[target_arch][(source_os, source_arch)] = info
test_build_jobs_set(tbj, info) ==
    IF \E i \in 1..Len(tbj) : SameTestBuildKey(tbj[i], info)
    THEN [tbj EXCEPT ![CHOOSE i \in 1..Len(tbj) : SameTestBuildKey(tbj[i], info)] = info]
    ELSE Append(tbj, info)

\* A faulty variant: the entries of every target architecture, not of this one.
test_build_jobs_items_of_all_targets(tbj, target_arch) == tbj

\* test_build_jobs[target_arch].items()
test_build_jobs_items(tbj, target_arch) ==
    LET OfTarget(e) == e.target_arch = target_arch
    IN  SelectSeq(tbj, OfTarget)

\* A faulty variant: the target architecture is left out of the identity.
test_job_name_without_arch(target_arch) == "test"

test_job_name(target_arch) == "test-" \o Architecture_for_musl(target_arch)

\* A faulty variant: the test job waits for its first test-build job only.
test_job_needs_first_only(tbj, target_arch) ==
    << test_build_jobs_items(tbj, target_arch)[1].job_name >>

test_job_needs(tbj, target_arch) ==
    LET items == test_build_jobs_items(tbj, target_arch)
    IN  [i \in 1..Len(items) |-> items[i].job_name]

test_job(tbj, target) ==
    LET items == test_build_jobs_items(tbj, target.arch)
        target_runner == target.runner[1]
    IN  Job(test_job_name(target.arch),
            target_runner.runs_on,
            test_job_needs(tbj, target.arch),
            target_runner.test_setup_steps
            \o << checkout >>
            \o [i \in 1..Len(items) |-> download(items[i].output)]
            \o << install_bazel(target_os, target.arch),
                  generate_tester_workspace_file(items),
                  Step("", "",
                       "cd test-workspaces/tester && CC=/bin/false bazel test ... --test_output=all",
                       "", "") >>,
            "", "")

\* A faulty variant: the release waits for the builds only.
release_needs_without_tests(artifacts, tests) ==
    [i \in 1..Len(artifacts) |-> artifacts[i].build_job_name]

release_needs(artifacts, tests) ==
    [i \in 1..Len(artifacts) |-> artifacts[i].build_job_name] \o tests

\* A faulty variant: the archives are downloaded under a versioned name.
release_job_versioned_downloads(artifacts, tests, v) ==
    Job("release", "ubuntu-24.04",
        release_needs(artifacts, tests),
        << checkout >>
        \o [i \in 1..Len(artifacts) |-> download(v \o "-" \o artifacts[i].musl_filename)]
        \o generate_release_archive(artifacts, "musl_toolchain-" \o v \o ".tar.gz", v)
        \o [i \in 1..Len(artifacts) |-> upload_release_archive_artifact(artifacts[i].musl_filename)],
        "", "")

release_job(artifacts, tests, v) ==
    LET release_body_path == "release-notes.txt"
        release_archive_path == "musl_toolchain-" \o v \o ".tar.gz"
    IN  Job("release", "ubuntu-24.04",
            release_needs(artifacts, tests),
            << checkout, Step("", "", "sudo ln -s /usr/bin/tar /usr/bin/gnutar", "", "") >>
            \o [i \in 1..Len(artifacts) |-> download(artifacts[i].musl_filename)]
            \o generate_release_archive(artifacts, release_archive_path, v)
            \o << generate_release_body(release_body_path, release_archive_path, v) >>
            \o << Step("Create release", "softprops/action-gh-release@v1", "", v, release_body_path),
                  upload_release_archive_artifact(release_archive_path) >>
            \o [i \in 1..Len(artifacts) |-> upload_release_archive_artifact(artifacts[i].musl_filename)],
            "", "")

publish_job(v) ==
    Job("publish", "", << "release" >>, << >>, "./.github/workflows/publish.yaml", v)

(***************************************************************************)
(* Files.                                                                  *)
(***************************************************************************)
\* A file is whether it exists and the chunks written to it, in order.  A
\* chunk is a text or a dumped workflow (name, triggers, job mapping).
Chunk(text, name, on, jobsOf) ==
    [text |-> text, name |-> name, on |-> on, jobs |-> jobsOf]

\* A file that does not exist.
AbsentFile == [exists |-> FALSE, content |-> << >>]

\* A file left by an earlier commit of the repository.
StaleFile ==
    [exists |-> TRUE, content |-> << Chunk("# stale", "Old", "push", << check_generated_job >>) >>]

\* A faulty variant: open(path, "a"), which keeps what the file holds.
open_a(file) == [exists |-> TRUE, content |-> file.content]

\* open(path, "w"): the file is created, or truncated when it exists.
open_w(file) == [exists |-> TRUE, content |-> << >>]

\* f.write(chunk)
file_write(file, chunk) == [file EXCEPT !.content = Append(@, chunk)]

\* write_generated_header(f)
write_generated_header(file) ==
    file_write(file,
        Chunk("# This file was generated by running ./generate-actions.py - it should not be manually modified\n\n",
              "", "", << >>))

\* yaml.dump(actions_config, sort_keys=False, Dumper=NoAliasDumper): the
\* mappings are dumped in insertion order, without anchors.
yaml_dump(name, on, jobsOf) == Chunk("", name, on, jobsOf)

(***************************************************************************)
(* The matrices the model runs make_jobs on.                               *)
(***************************************************************************)
\* The sequences of distinct indices of 1..n, of every length from 1 to n.
Arrangements(n) ==
    { s \in UNION { [1..k -> 1..n] : k \in 1..n } :
        \A i, j \in DOMAIN s : i # j => s[i] # s[j] }

\* Those that keep the declared order.
Subsequences(n) ==
    { s \in Arrangements(n) : \A i, j \in DOMAIN s : i < j => s[i] < s[j] }

\* Non-empty sublists of the declared source machines, in declared order.
SourceChoices ==
    { [i \in DOMAIN s |-> declared_source_machines[s[i]]] :
        s \in Subsequences(Len(declared_source_machines)) }

\* Non-empty lists of distinct entries of `declared`, in any order, each with
\* its runner or with None.
TargetChoicesOf(declared) ==
    { [i \in DOMAIN s |->
          [arch |-> declared[s[i]].arch,
           runner |-> IF s[i] \in tested THEN declared[s[i]].runner ELSE << >>]] :
        s \in Arrangements(Len(declared)), tested \in SUBSET (1..Len(declared)) }

TargetChoices == TargetChoicesOf(declared_target_machines)

\* target_machines after a member was added to Architecture and to the list.
extended_target_machines ==
    Append(declared_target_machines, [arch |-> UnwiredArch, runner |-> << >>])

TargetChoicesExt ==
    { t \in TargetChoicesOf(extended_target_machines) :
        \E i \in DOMAIN t : t[i].arch = UnwiredArch }

(***************************************************************************)
(* State machine: main, calling make_jobs twice.                           *)
(***************************************************************************)
Emitted(job, kind) == [name |-> job.name, kind |-> kind, needs |-> job.needs]

InitOn(sources, targets) ==
    /\ source_machines \in sources
    /\ target_machines \in targets
    /\ pc = "start"
    /\ run = 1
    /\ release = FALSE
    /\ version = ""
    /\ ti = 1
    /\ si = 1
    /\ jobs = << >>
    /\ releasable_artifacts = << >>
    /\ test_build_jobs = << >>
    /\ test_jobs = << >>
    /\ emitted = << >>
    /\ build_yaml \in {AbsentFile, StaleFile}
    /\ release_yaml \in {AbsentFile, StaleFile}
    /\ first_run = << >>
    /\ workflow = << >>
    /\ status = << >>

Init == InitOn(SourceChoices, TargetChoices)

InitExt == InitOn(SourceChoices, TargetChoicesExt)

\* main: with open(build.yaml, "w") as f, up to the call of
\* make_jobs(release=False, version="unreleased").
MainOpenBuild ==
    /\ pc = "start"
    /\ build_yaml' = open_w(build_yaml)
    /\ release' = FALSE
    /\ version' = "unreleased"
    /\ pc' = "make_jobs"
    /\ UNCHANGED <<workflow, status>>
    /\ UNCHANGED <<source_machines, target_machines, run, ti, si, jobs,
                   releasable_artifacts, test_build_jobs, test_jobs, emitted,
                   release_yaml, first_run>>

\* make_jobs, up to the loops: jobs = {"check-generated": ...} and the
\* three empty collections.
MakeJobsBegin ==
    /\ pc = "make_jobs"
    /\ jobs' = << check_generated_job >>
    /\ emitted' = << Emitted(check_generated_job, "CheckGenerated") >>
    /\ releasable_artifacts' = << >>
    /\ test_build_jobs' = << >>
    /\ test_jobs' = << >>
    /\ ti' = 1
    /\ si' = 1
    /\ pc' = "loop"
    /\ UNCHANGED <<workflow, status>>
    /\ UNCHANGED <<source_machines, target_machines, run, release, version,
                   build_yaml, release_yaml, first_run>>

\* One pass of the inner loop body: the build job, its artifact, the
\* test-build job and its entry in test_build_jobs.
InnerIteration ==
    /\ pc = "loop"
    /\ ti <= Len(target_machines)
    /\ si <= Len(source_machines)
    /\ LET source == source_machines[si]
           target_arch == target_machines[ti].arch
       IN  /\ jobs' = DictSet(DictSet(jobs, build_job(source, target_arch)),
                              test_build_job(source, target_arch))
           /\ emitted' = emitted
                  \o << Emitted(build_job(source, target_arch), "BuildJob"),
                        Emitted(test_build_job(source, target_arch), "TestBuildJob") >>
           /\ releasable_artifacts' =
                  Append(releasable_artifacts, ReleasableArtifact(source, target_arch))
           /\ test_build_jobs' =
                  test_build_jobs_set(test_build_jobs, test_build_info(source, target_arch))
    /\ si' = si + 1
    /\ UNCHANGED <<workflow, status>>
    /\ UNCHANGED <<source_machines, target_machines, pc, run, release, version, ti,
                   test_jobs, build_yaml, release_yaml, first_run>>

\* The end of one pass of the outer loop: `if not target_runner: continue`,
\* else the test job of the target architecture.
OuterIterationEnd ==
    /\ pc = "loop"
    /\ ti <= Len(target_machines)
    /\ si > Len(source_machines)
    /\ IF target_machines[ti].runner = << >>
       THEN UNCHANGED <<jobs, emitted, test_jobs>>
       ELSE /\ test_jobs' = Append(test_jobs, test_job_name(target_machines[ti].arch))
            /\ jobs' = DictSet(jobs, test_job(test_build_jobs, target_machines[ti]))
            /\ emitted' = Append(emitted,
                   Emitted(test_job(test_build_jobs, target_machines[ti]), "TestJob"))
    /\ ti' = ti + 1
    /\ si' = 1
    /\ UNCHANGED <<workflow, status>>
    /\ UNCHANGED <<source_machines, target_machines, pc, run, release, version,
                   releasable_artifacts, test_build_jobs, build_yaml, release_yaml,
                   first_run>>

\* After the loops: `if release:` the release and publish jobs; return jobs.
MakeJobsReturn ==
    /\ pc = "loop"
    /\ ti > Len(target_machines)
    /\ IF release
       THEN /\ jobs' = DictSet(DictSet(jobs,
                           release_job(releasable_artifacts, test_jobs, version)),
                           publish_job(version))
            /\ emitted' = emitted
                   \o << Emitted(release_job(releasable_artifacts, test_jobs, version),
                                 "ReleaseJob"),
                         Emitted(publish_job(version), "PublishJob") >>
       ELSE UNCHANGED <<jobs, emitted>>
    /\ pc' = "return"
    /\ UNCHANGED <<workflow, status>>
    /\ UNCHANGED <<source_machines, target_machines, run, release, version, ti, si,
                   releasable_artifacts, test_build_jobs, test_jobs, build_yaml,
                   release_yaml, first_run>>

\* main: the header and the dump of the "PR" workflow into build.yaml.
MainWriteBuild ==
    /\ pc = "return"
    /\ ~release
    /\ build_yaml' = file_write(write_generated_header(build_yaml),
                                yaml_dump("PR", "pull_request,workflow_dispatch", jobs))
    /\ pc' = "open_release"
    /\ UNCHANGED <<workflow, status>>
    /\ UNCHANGED <<source_machines, target_machines, run, release, version, ti, si,
                   jobs, releasable_artifacts, test_build_jobs, test_jobs, emitted,
                   release_yaml, first_run>>

\* main: with open(release.yaml, "w") as f, up to the call of
\* make_jobs(release=True, version="${{github.ref_name}}").
MainOpenRelease ==
    /\ pc = "open_release"
    /\ release_yaml' = open_w(release_yaml)
    /\ release' = TRUE
    /\ version' = "${{github.ref_name}}"
    /\ pc' = "make_jobs"
    /\ UNCHANGED <<workflow, status>>
    /\ UNCHANGED <<source_machines, target_machines, run, ti, si, jobs,
                   releasable_artifacts, test_build_jobs, test_jobs, emitted,
                   build_yaml, first_run>>

\* main: the header and the dump of the "Release" workflow into release.yaml.
MainWriteRelease ==
    /\ pc = "return"
    /\ release
    /\ release_yaml' = file_write(write_generated_header(release_yaml),
                                  yaml_dump("Release", "workflow_dispatch,push", jobs))
    /\ first_run' = IF run = 1 THEN << build_yaml, release_yaml' >> ELSE first_run
    /\ pc' = "done"
    /\ UNCHANGED <<workflow, status>>
    /\ UNCHANGED <<source_machines, target_machines, run, release, version, ti, si,
                   jobs, releasable_artifacts, test_build_jobs, test_jobs, emitted,
                   build_yaml>>

\* The generator is run again, as a new process, on the files the previous
\* run left: nothing of the previous process is kept but the files.
RunAgain ==
    /\ pc = "done"
    /\ run < MaxRuns
    /\ run' = run + 1
    /\ pc' = "start"
    /\ release' = FALSE
    /\ version' = ""
    /\ ti' = 1
    /\ si' = 1
    /\ jobs' = << >>
    /\ releasable_artifacts' = << >>
    /\ test_build_jobs' = << >>
    /\ test_jobs' = << >>
    /\ emitted' = << >>
    /\ UNCHANGED <<workflow, status>>
    /\ UNCHANGED <<source_machines, target_machines, build_yaml, release_yaml,
                   first_run>>

Next ==
    \/ MainOpenBuild
    \/ MakeJobsBegin
    \/ InnerIteration
    \/ OuterIterationEnd
    \/ MakeJobsReturn
    \/ MainWriteBuild
    \/ MainOpenRelease
    \/ MainWriteRelease
    \/ RunAgain

Spec == Init /\ [][Next]_vars

SpecExt == InitExt /\ [][Next]_vars

(***************************************************************************)
(* State machine: make_jobs called with the same release flag and          *)
(* different version strings, the first mapping being kept in first_run.   *)
(***************************************************************************)
\* The version strings main passes, and the name of a tag.
Versions == {"unreleased", "${{github.ref_name}}", "v1.2.3"}

InitVersions ==
    /\ InitOn(SourceChoices, TargetChoices)
    /\ build_yaml = AbsentFile
    /\ release_yaml = AbsentFile

\* make_jobs(release=r, version=v) is called: any r and v at first, then the
\* same r with another v.
CallMakeJobs ==
    /\ pc = "start"
    /\ \E r \in BOOLEAN, v \in Versions :
           /\ run > 1 => (r = first_run.release /\ v # first_run.version)
           /\ release' = r
           /\ version' = v
    /\ pc' = "make_jobs"
    /\ UNCHANGED <<workflow, status>>
    /\ UNCHANGED <<source_machines, target_machines, run, ti, si, jobs,
                   releasable_artifacts, test_build_jobs, test_jobs, emitted,
                   build_yaml, release_yaml, first_run>>

\* The caller keeps the first mapping returned and calls again.
KeepResult ==
    /\ pc = "return"
    /\ run < MaxRuns
    /\ first_run' = IF run = 1
                    THEN [release |-> release, version |-> version, jobs |-> jobs,
                          releasable_artifacts |-> releasable_artifacts,
                          test_build_jobs |-> test_build_jobs]
                    ELSE first_run
    /\ run' = run + 1
    /\ pc' = "start"
    /\ UNCHANGED <<workflow, status>>
    /\ UNCHANGED <<source_machines, target_machines, release, version, ti, si, jobs,
                   releasable_artifacts, test_build_jobs, test_jobs, emitted,
                   build_yaml, release_yaml>>

NextVersions ==
    \/ CallMakeJobs
    \/ MakeJobsBegin
    \/ InnerIteration
    \/ OuterIterationEnd
    \/ MakeJobsReturn
    \/ KeepResult

SpecVersions == InitVersions /\ [][NextVersions]_vars

(***************************************************************************)
(* The CI runtime running a generated workflow: a job starts when every    *)
(* job of its `needs` has succeeded, and is skipped when one of them has   *)
(* failed or was skipped.                                                  *)
(***************************************************************************)
\* The matrices the runtime is modelled on: one or two source machines, one
\* or two target architectures, at most two pairs.
RuntimeSourceChoices ==
    { << declared_source_machines[1] >>,
      << declared_source_machines[1], declared_source_machines[2] >> }

RuntimeTargetChoices == TargetChoices

InitRuntime ==
    /\ InitOn(RuntimeSourceChoices, RuntimeTargetChoices)
    /\ Len(source_machines) = 1 \/ Len(target_machines) = 1
    /\ build_yaml = AbsentFile
    /\ release_yaml = AbsentFile

JobStatus == {"pending", "running", "succeeded", "failed", "skipped"}

\* The job mapping a workflow file holds.
JobsOfFile(file) == file.content[Len(file.content)].jobs

\* The state of the job `name` of the workflow.
StatusOf(name) == status[DictIndex(workflow, name)]

\* One of the two workflows is triggered: all its jobs are pending.
TriggerWorkflow ==
    /\ pc = "done"
    /\ \E file \in {build_yaml, release_yaml} :
           /\ workflow' = JobsOfFile(file)
           /\ status' = [i \in DOMAIN JobsOfFile(file) |-> "pending"]
    /\ pc' = "ci"
    /\ UNCHANGED <<source_machines, target_machines, run, release, version, ti, si,
                   jobs, releasable_artifacts, test_build_jobs, test_jobs, emitted,
                   build_yaml, release_yaml, first_run>>

\* A pending job starts: every job of its needs has succeeded.
JobStart ==
    /\ pc = "ci"
    /\ \E j \in DOMAIN workflow :
           /\ status[j] = "pending"
           /\ \A k \in DOMAIN workflow[j].needs :
                  StatusOf(workflow[j].needs[k]) = "succeeded"
           /\ status' = [status EXCEPT ![j] = "running"]
    /\ UNCHANGED <<source_machines, target_machines, pc, run, release, version, ti,
                   si, jobs, releasable_artifacts, test_build_jobs, test_jobs,
                   emitted, build_yaml, release_yaml, first_run, workflow>>

\* A running job ends with every step successful.
JobSucceed ==
    /\ pc = "ci"
    /\ \E j \in DOMAIN workflow :
           /\ status[j] = "running"
           /\ status' = [status EXCEPT ![j] = "succeeded"]
    /\ UNCHANGED <<source_machines, target_machines, pc, run, release, version, ti,
                   si, jobs, releasable_artifacts, test_build_jobs, test_jobs,
                   emitted, build_yaml, release_yaml, first_run, workflow>>

\* A step of a running job fails: the job is aborted.
JobFail ==
    /\ pc = "ci"
    /\ \E j \in DOMAIN workflow :
           /\ status[j] = "running"
           /\ status' = [status EXCEPT ![j] = "failed"]
    /\ UNCHANGED <<source_machines, target_machines, pc, run, release, version, ti,
                   si, jobs, releasable_artifacts, test_build_jobs, test_jobs,
                   emitted, build_yaml, release_yaml, first_run, workflow>>

\* A pending job is skipped: a job of its needs has failed or was skipped.
JobSkip ==
    /\ pc = "ci"
    /\ \E j \in DOMAIN workflow :
           /\ status[j] = "pending"
           /\ \E k \in DOMAIN workflow[j].needs :
                  StatusOf(workflow[j].needs[k]) \in {"failed", "skipped"}
           /\ status' = [status EXCEPT ![j] = "skipped"]
    /\ UNCHANGED <<source_machines, target_machines, pc, run, release, version, ti,
                   si, jobs, releasable_artifacts, test_build_jobs, test_jobs,
                   emitted, build_yaml, release_yaml, first_run, workflow>>

NextRuntime ==
    \/ MainOpenBuild
    \/ MakeJobsBegin
    \/ InnerIteration
    \/ OuterIterationEnd
    \/ MakeJobsReturn
    \/ MainWriteBuild
    \/ MainOpenRelease
    \/ MainWriteRelease
    \/ TriggerWorkflow
    \/ JobStart
    \/ JobSucceed
    \/ JobFail
    \/ JobSkip

SpecRuntime == InitRuntime /\ [][NextRuntime]_vars

(***************************************************************************)
(* Vocabulary of the properties.                                           *)
(***************************************************************************)
Range(seq) == { seq[i] : i \in DOMAIN seq }

\* The identities emitted so far by the statement that emits jobs of `kind`.
IdsOfKind(kind) == { emitted[i].name : i \in { k \in DOMAIN emitted : emitted[k].kind = kind } }

\* How many jobs of `kind` were emitted so far.
CountOfKind(kind) == Cardinality({ i \in DOMAIN emitted : emitted[i].kind = kind })

\* make_jobs has returned its mapping.
Returned == pc = "return"

\* The matrix is the one the code declares.
DeclaredMatrix ==
    /\ source_machines = declared_source_machines
    /\ target_machines = declared_target_machines

Testable(target) == target.runner # << >>

\* The artifact names a job uploads / downloads with the artifact actions.
Uploads(job) ==
    { job.steps[i].with_name :
        i \in { k \in DOMAIN job.steps : job.steps[k].uses = "actions/upload-artifact@v4" } }

Downloads(job) ==
    { job.steps[i].with_name :
        i \in { k \in DOMAIN job.steps : job.steps[k].uses = "actions/download-artifact@v4" } }

(***************************************************************************)
(* C1                                                                      *)
(***************************************************************************)
\* C1: at every point of make_jobs, for release=True and release=False, every
\* identity in a job's needs is the key of a job inserted strictly earlier,
\* both in the mapping and in the order of the insertions; so no job needs
\* itself and the needs-graph has no cycle.
C1_NeedsRegisteredEarlier ==
    /\ \A i \in DOMAIN jobs : \A k \in DOMAIN jobs[i].needs :
           \E j \in 1..(i - 1) : jobs[j].name = jobs[i].needs[k]
    /\ \A i \in DOMAIN emitted : \A k \in DOMAIN emitted[i].needs :
           \E j \in 1..(i - 1) : emitted[j].name = emitted[i].needs[k]

\* The release mapping of the declared matrix is complete, with its 21 jobs.
C1_Witness ==
    /\ Returned /\ release /\ DeclaredMatrix
    /\ DictHas(jobs, "publish")
    /\ \E i \in DOMAIN jobs : Len(jobs[i].needs) > 1

(***************************************************************************)
(* C2                                                                      *)
(***************************************************************************)
\* C2: in the release pipeline the needs of `release` are, as a set, exactly
\* the BuildJob identities and the TestJob identities emitted; no TestBuildJob
\* identity, `check-generated` or `publish` is among them.
C2_ReleaseNeedsExact ==
    (Returned /\ release) =>
        /\ DictHas(jobs, "release")
        /\ Range(DictGet(jobs, "release").needs) = IdsOfKind("BuildJob") \cup IdsOfKind("TestJob")
        /\ Range(DictGet(jobs, "release").needs)
             \cap (IdsOfKind("TestBuildJob") \cup {"check-generated", "publish", "release"}) = {}

\* A release mapping with test jobs, and with a target that has none.
C2_Witness ==
    /\ Returned /\ release
    /\ IdsOfKind("TestJob") # {}
    /\ \E t \in DOMAIN target_machines : ~Testable(target_machines[t])
    /\ Len(source_machines) > 1

(***************************************************************************)
(* C3                                                                      *)
(***************************************************************************)
\* C3: two distinct (source platform, target architecture) pairs of the
\* matrix never derive the same BuildJob identity, no BuildJob identity is
\* the identity of a job of another kind, and no insertion into the mapping
\* overwrites an earlier job.
C3_BuildJobIdentityUnique ==
    /\ \A s1, s2 \in DOMAIN source_machines : \A t1, t2 \in DOMAIN target_machines :
           (<<s1, t1>> # <<s2, t2>>) =>
               build_job_name(source_machines[s1].os, source_machines[s1].arch,
                              target_machines[t1].arch)
               # build_job_name(source_machines[s2].os, source_machines[s2].arch,
                                target_machines[t2].arch)
    /\ \A i, j \in DOMAIN emitted :
           (i # j /\ emitted[i].kind = "BuildJob") => emitted[i].name # emitted[j].name
    /\ Len(jobs) = Len(emitted)
    /\ \A i \in DOMAIN jobs : jobs[i].name = emitted[i].name

\* Every pair of the declared matrix has been emitted.
C3_Witness ==
    /\ Returned /\ release /\ DeclaredMatrix
    /\ CountOfKind("BuildJob") = Len(source_machines) * Len(target_machines)

C5_TestJobNeeds ==
    Returned =>
        \A t \in DOMAIN target_machines :
            Testable(target_machines[t]) =>
                LET T == target_machines[t].arch
                    name == test_job_name(T)
                IN  /\ Cardinality({ i \in DOMAIN emitted : emitted[i].name = name }) = 1
                    /\ name \in IdsOfKind("TestJob")
                    /\ DictHas(jobs, name)
                    /\ Range(DictGet(jobs, name).needs) =
                           { test_build_job_name(source_machines[s].os, source_machines[s].arch, T) :
                               s \in DOMAIN source_machines }
                    /\ Len(DictGet(jobs, name).needs) = Len(source_machines)
                    /\ Range(DictGet(jobs, name).needs) \subseteq IdsOfKind("TestBuildJob")
                    /\ \A u \in DOMAIN target_machines : \A s \in DOMAIN source_machines :
                           u # t =>
                               test_build_job_name(source_machines[s].os, source_machines[s].arch,
                                                   target_machines[u].arch)
                               \notin Range(DictGet(jobs, name).needs)

\* Two testable targets, processed in the order opposite to the declared
\* one, over several source platforms.
C5_Witness ==
    /\ Returned
    /\ Len(target_machines) = 2
    /\ target_machines[1].arch = "ARM64"
    /\ \A t \in DOMAIN target_machines : Testable(target_machines[t])
    /\ Len(source_machines) = 4
    /\ CountOfKind("TestJob") = 2

(***************************************************************************)
(* C6                                                                      *)
(***************************************************************************)
\* C6: every TestBuildJob needs exactly one job, the BuildJob of its own
\* (source OS, source architecture, target architecture): the job emitted
\* just before it, whose identity is its own without "-test-build" and whose
\* uploaded archive is the one it downloads.
C6_TestBuildNeedsOwnBuild ==
    \A i \in DOMAIN emitted :
        emitted[i].kind = "TestBuildJob" =>
            /\ Len(emitted[i].needs) = 1
            /\ i > 1
            /\ emitted[i - 1].kind = "BuildJob"
            /\ emitted[i].needs[1] = emitted[i - 1].name
            /\ emitted[i].name = emitted[i].needs[1] \o "-test-build"
            /\ DictHas(jobs, emitted[i].name)
            /\ DictHas(jobs, emitted[i].needs[1])
            /\ DictGet(jobs, emitted[i].name).needs = emitted[i].needs
            /\ Downloads(DictGet(jobs, emitted[i].name)) = Uploads(DictGet(jobs, emitted[i].needs[1]))
            /\ Cardinality(Uploads(DictGet(jobs, emitted[i].needs[1]))) = 1

\* Test-build jobs of several source platforms and two targets are in the
\* mapping.
C6_Witness ==
    /\ Returned
    /\ CountOfKind("TestBuildJob") >= 4
    /\ Len(target_machines) = 2

(***************************************************************************)
(* C7                                                                      *)
(***************************************************************************)
\* C7: on the declared matrix (4 source platforms, 2 target architectures,
\* both testable) make_jobs(release=True) returns exactly 8 BuildJobs, 8
\* TestBuildJobs, 2 TestJobs, 1 ReleaseJob and 1 publish job, each under its
\* own key, beside check-generated.
C7_DeclaredMatrixCounts ==
    (Returned /\ release /\ DeclaredMatrix) =>
        /\ Cardinality(IdsOfKind("BuildJob")) = 8
        /\ Cardinality(IdsOfKind("TestBuildJob")) = 8
        /\ Cardinality(IdsOfKind("TestJob")) = 2
        /\ IdsOfKind("ReleaseJob") = {"release"}
        /\ IdsOfKind("PublishJob") = {"publish"}
        /\ CountOfKind("BuildJob") = 8
        /\ CountOfKind("TestBuildJob") = 8
        /\ CountOfKind("TestJob") = 2
        /\ CountOfKind("ReleaseJob") = 1
        /\ CountOfKind("PublishJob") = 1
        /\ Cardinality({ jobs[i].name : i \in DOMAIN jobs }) = 21
        /\ Len(jobs) = 21

\* make_jobs(release=True) has returned on the declared matrix.
C7_Witness ==
    /\ Returned /\ release /\ DeclaredMatrix
    /\ \A t \in DOMAIN target_machines : Testable(target_machines[t])

(***************************************************************************)
(* C8                                                                      *)
(***************************************************************************)
\* The matrix holds an architecture no derivation function has a case for.
HasUnwiredArch ==
    \/ \E t \in DOMAIN target_machines : target_machines[t].arch \notin Architecture
    \/ \E s \in DOMAIN source_machines : source_machines[s].arch \notin Architecture

\* The file is as it was before the generator ran.
Untouched(file) == file \in {AbsentFile, StaleFile}

Placeholder(text) == text = "" \/ str_contains(text, None)

C10_Deterministic ==
    (pc = "done" /\ run > 1) => << build_yaml, release_yaml >> = first_run

\* The second run has completed on the declared matrix, the first having
\* started from a stale build.yaml and no release.yaml.
C10_Witness ==
    /\ pc = "done" /\ run = 2 /\ DeclaredMatrix
    /\ Len(first_run) = 2
    /\ Len(build_yaml.content) = 2
    /\ Len(build_yaml.content[2].jobs) > 1

(***************************************************************************)
(* C11                                                                     *)
(***************************************************************************)
\* The steps of the release job that hold the version: the manifest, the
\* download URLs, the release archive, the release body and the tag.
VersionDependentStep(step) ==
    \/ step.name \in {"Generate MODULE.bazel", "Generate repositories.bzl",
                      "Generate release archive", "Run BCR tests",
                      "Generate release body", "Create release"}
    \/ /\ step.name = "Upload release archive"
       /\ step.with_name \notin { releasable_artifacts[i].musl_filename : i \in DOMAIN releasable_artifacts }

\* C11: make_jobs(release, v1) and make_jobs(release, v2) return the same
\* identities in the same order with the same needs and runner selectors,
\* the same archive and test-binary filenames and repository names; every
\* job but release and publish is identical, publish differs in its tag
\* only, and release differs only in its version-dependent steps.
C11_VersionChangesOnlyVersionFields ==
    (Returned /\ run > 1) =>
        /\ version # first_run.version
        /\ release = first_run.release
        /\ Len(jobs) = Len(first_run.jobs)
        /\ releasable_artifacts = first_run.releasable_artifacts
        /\ test_build_jobs = first_run.test_build_jobs
        /\ \A i \in DOMAIN releasable_artifacts :
               repo_name(releasable_artifacts[i]) = repo_name(first_run.releasable_artifacts[i])
        /\ \A i \in DOMAIN jobs :
               LET a == first_run.jobs[i]
                   b == jobs[i]
               IN  /\ a.name = b.name
                   /\ a.needs = b.needs
                   /\ a.runs_on = b.runs_on
                   /\ a.uses = b.uses
                   /\ Uploads(a) = Uploads(b)
                   /\ Downloads(a) = Downloads(b)
                   /\ Len(a.steps) = Len(b.steps)
                   /\ b.name \notin {"release", "publish"} => a = b
                   /\ b.name = "publish" => [a EXCEPT !.tag_name = b.tag_name] = b
                   /\ \A k \in DOMAIN b.steps :
                          /\ a.steps[k].name = b.steps[k].name
                          /\ a.steps[k].uses = b.steps[k].uses
                          /\ a.steps[k] # b.steps[k] => VersionDependentStep(b.steps[k])

\* The release mapping of the declared matrix was returned for two versions,
\* and the two release jobs do differ.
C11_Witness ==
    /\ Returned /\ run = 2 /\ release /\ DeclaredMatrix
    /\ DictGet(jobs, "release") # DictGet(first_run.jobs, "release")
    /\ DictGet(jobs, "publish").tag_name # DictGet(first_run.jobs, "publish").tag_name

(***************************************************************************)
(* C12                                                                     *)
(***************************************************************************)
RECURSIVE FindStr(_, _, _)
\* The first position at or after i where pat occurs in s, or 0; the text
\* is searched a stretch of 32 positions at a time.
FindStr(s, i, pat) ==
    LET last == Len(s) - Len(pat) + 1
        stretch == { j \in i..(IF i + 31 < last THEN i + 31 ELSE last) :
                       SubSeq(s, j, j + Len(pat) - 1) = pat }
    IN  IF i > last THEN 0
        ELSE IF stretch # {} THEN CHOOSE j \in stretch : \A k \in stretch : j <= k
        ELSE FindStr(s, i + 32, pat)

\* The positions where pat occurs in s.
Occurrences(s, pat) ==
    { i \in 1..(Len(s) - Len(pat) + 1) : SubSeq(s, i, i + Len(pat) - 1) = pat }

RECURSIVE Basename(_)
\* The part of a URL or path after its last "/".
Basename(u) ==
    IF FindStr(u, 1, "/") = 0 THEN u
    ELSE Basename(SubSeq(u, FindStr(u, 1, "/") + 1, Len(u)))

\* The value is a command substitution, left for the shell that runs the
\* step, which hashes `file`.
PendingDigestOf(value, file) ==
    \E cmd \in {"sha256sum", "shasum -a 256"} :
        value = "$(" \o cmd \o " " \o file \o " | awk '{print $1}')"

\* The value is a resolved digest: hexadecimal digits only.
ResolvedDigest(value) ==
    /\ Len(value) > 0
    /\ \A k \in 1..Len(value) :
           SubSeq(value, k, k) \in {"0", "1", "2", "3", "4", "5", "6", "7", "8", "9",
                                    "a", "b", "c", "d", "e", "f"}

\* The declaration `sha256 = "...", url = "..."` at position i of s has a
\* pending digest of the file its url names.
DeclaredDigestPending(s, i) ==
    LET open == "sha256 = \""
        sep == "\",\n    url = \""
        vs == i + Len(open)
        ve == FindStr(s, vs, "\"")
        value == SubSeq(s, vs, ve - 1)
        us == ve + Len(sep)
        ue == FindStr(s, us, "\"")
        url == SubSeq(s, us, ue - 1)
    IN  /\ ve > 0
        /\ SubSeq(s, ve, us - 1) = sep
        /\ ue > 0
        /\ ~ResolvedDigest(value)
        /\ PendingDigestOf(value, Basename(url))

\* The shell assignment `sha256=... ; url='...'` at position i of s has a
\* pending digest of the file its url names.
AssignedDigestPending(s, i) ==
    LET open == "sha256="
        sep == " ; url='"
        vs == i + Len(open)
        ve == FindStr(s, vs, sep)
        value == SubSeq(s, vs, ve - 1)
        us == ve + Len(sep)
        ue == FindStr(s, us, "'")
        url == SubSeq(s, us, ue - 1)
    IN  /\ ve > 0
        /\ ue > 0
        /\ ~ResolvedDigest(value)
        /\ PendingDigestOf(value, Basename(url))

\* The sha256 declarations and assignments of a script.
DigestsOf(s) == Occurrences(s, "sha256 = \"") \cup Occurrences(s, "sha256=")

\* C12: in every step of the returned mapping every sha256 value (of an
\* http_archive or http_file declaration, or of the release body) is a
\* pending command substitution hashing the file named by the url of the
\* same declaration, never a resolved digest.
C12_DigestsArePending ==
    Returned =>
        \A j \in DOMAIN jobs : \A k \in DOMAIN jobs[j].steps :
            LET s == jobs[j].steps[k].run
            IN  /\ \A i \in Occurrences(s, "sha256 = \"") : DeclaredDigestPending(s, i)
                /\ \A i \in Occurrences(s, "sha256=") : AssignedDigestPending(s, i)

\* The release mapping of the declared matrix: the builder workspaces, the
\* tester workspaces, repositories.bzl and the release body all declare
\* digests.
C12_Witness ==
    /\ Returned /\ release /\ DeclaredMatrix
    /\ \E k \in DOMAIN DictGet(jobs, "release").steps :
           /\ DictGet(jobs, "release").steps[k].name = "Generate repositories.bzl"
           /\ Cardinality(DigestsOf(DictGet(jobs, "release").steps[k].run)) = 8
    /\ \E k \in DOMAIN DictGet(jobs, "release").steps :
           /\ DictGet(jobs, "release").steps[k].name = "Generate release body"
           /\ Cardinality(DigestsOf(DictGet(jobs, "release").steps[k].run)) = 1
    /\ \E k \in DOMAIN DictGet(jobs, "test-aarch64").steps :
           /\ DictGet(jobs, "test-aarch64").steps[k].name = "Generate tester workspace file"
           /\ Cardinality(DigestsOf(DictGet(jobs, "test-aarch64").steps[k].run)) = 4
    /\ \E k \in DOMAIN DictGet(jobs, "apple-darwin-aarch64-x86_64-test-build").steps :
           Cardinality(DigestsOf(DictGet(jobs, "apple-darwin-aarch64-x86_64-test-build").steps[k].run)) = 1

(***************************************************************************)
(* C13                                                                     *)
(***************************************************************************)
\* The script of the step of the release job that writes repositories.bzl.
RepositoriesScript ==
    LET steps == DictGet(jobs, "release").steps
    IN  steps[CHOOSE k \in DOMAIN steps : steps[k].name = "Generate repositories.bzl"].run

\* The positions of the toolchain() declarations of a script.
ToolchainDeclarations(s) == Occurrences(s, "toolchain(\n    name = \"")

\* The name of the toolchain() declaration at position i.
ToolchainName(s, i) ==
    LET ns == i + Len("toolchain(\n    name = \"")
    IN  SubSeq(s, ns, FindStr(s, ns, "\"") - 1)

IsTestToolchainName(name) ==
    str_removesuffix(name, "_test_toolchain") # name

\* The target architectures of the matrix.
TargetArchitectures == { target_machines[t].arch : t \in DOMAIN target_machines }

\* The number of (source platform, target architecture) pairs of the matrix.
MatrixPairs == Len(source_machines) * Len(target_machines)

\* C13 as stated: repositories.bzl declares one toolchain per (source,
\* target) pair and one test toolchain per target architecture, under
\* pairwise distinct names.
C13_OneTestToolchainPerTarget ==
    (Returned /\ release) =>
        LET s == RepositoriesScript
            names == { ToolchainName(s, i) : i \in ToolchainDeclarations(s) }
        IN  /\ Cardinality({ n \in names : ~IsTestToolchainName(n) }) = MatrixPairs
            /\ Cardinality({ i \in ToolchainDeclarations(s) : IsTestToolchainName(ToolchainName(s, i)) })
                 = Cardinality(TargetArchitectures)
            /\ Cardinality(names) = Cardinality(ToolchainDeclarations(s))

\* C13 amended: repositories.bzl declares, for every (source, target) pair,
\* one toolchain named after the pair's repository and one test toolchain
\* named <repository>_test_toolchain, 2 * pairs declarations in all (8 + 8
\* on the declared matrix), under pairwise distinct names.
C13_ToolchainAndTestToolchainPerPair ==
    (Returned /\ release) =>
        LET s == RepositoriesScript
            names == { ToolchainName(s, i) : i \in ToolchainDeclarations(s) }
            repos == { repo_name(releasable_artifacts[i]) : i \in DOMAIN releasable_artifacts }
        IN  /\ Len(releasable_artifacts) = MatrixPairs
            /\ Cardinality(repos) = MatrixPairs
            /\ { n \in names : ~IsTestToolchainName(n) } = repos
            /\ { n \in names : IsTestToolchainName(n) } = { r \o "_test_toolchain" : r \in repos }
            /\ Cardinality(ToolchainDeclarations(s)) = 2 * MatrixPairs
            /\ Cardinality(names) = 2 * MatrixPairs
            /\ DeclaredMatrix => Cardinality(names) = 16

\* The release mapping of the declared matrix, with its 16 declarations.
C13_Witness ==
    /\ Returned /\ release /\ DeclaredMatrix
    /\ Cardinality(ToolchainDeclarations(RepositoriesScript)) = 16

(***************************************************************************)
(* C14                                                                     *)
(***************************************************************************)
\* The musl triple of a source platform: architecture part, then OS part.
MuslTriple(source) == Architecture_for_musl(source.arch) \o "-" \o OS_for_musl(source.os)

\* The identity under which the build job of a pair is registered.
BuildJobIdentityOf(source, target) ==
    OS_for_musl(source.os) \o "-" \o Architecture_for_musl(source.arch) \o "-"
    \o Architecture_for_musl(target.arch)

\* The derivations of (Linux, arm64).
LinuxArm64Derivations ==
    /\ Architecture_for_musl("ARM64") \o "-" \o OS_for_musl("Linux") = "aarch64-unknown-linux-gnu"
    /\ Architecture_for_bazel_platform("ARM64") = "arm64"
    /\ Architecture_for_bazel_download("ARM64") = "arm64"

\* The archive and the test binary of every pair carry the musl triple of
\* the source platform, architecture part first.
ArtifactsCarryTriple ==
    \A s \in DOMAIN source_machines : \A t \in DOMAIN target_machines :
        LET source == source_machines[s]
            target == target_machines[t]
            id == BuildJobIdentityOf(source, target)
        IN  /\ DictHas(jobs, id)
            /\ DictHas(jobs, id \o "-test-build")
            /\ Uploads(DictGet(jobs, id)) =
                   { "musl-1.2.3-platform-" \o MuslTriple(source) \o "-target-"
                     \o Architecture_for_musl(target.arch) \o "-linux-musl.tar.gz" }
            /\ Uploads(DictGet(jobs, id \o "-test-build")) =
                   { "test-binary-platform-" \o MuslTriple(source) \o "-target-"
                     \o Architecture_for_musl(target.arch) \o "-linux-musl" }

\* C14 as stated: (Linux, arm64) derives aarch64-unknown-linux-gnu, arm64
\* and arm64, and the triple, architecture part first, is in every artifact
\* filename and in every BuildJob identity.
C14_TripleEverywhere ==
    Returned =>
        /\ LinuxArm64Derivations
        /\ ArtifactsCarryTriple
        /\ \A i \in DOMAIN emitted : emitted[i].kind = "BuildJob" =>
               \E s \in DOMAIN source_machines :
                   str_contains(emitted[i].name, MuslTriple(source_machines[s]))

\* C14 amended: (Linux, arm64) derives aarch64-unknown-linux-gnu, arm64 and
\* arm64; the triple, architecture part first, is in the archive and
\* test-binary filenames, while the BuildJob and TestBuildJob identities put
\* the OS part first (unknown-linux-gnu-aarch64-<target>) and hold no triple.
C14_TripleInFilenamesOnly ==
    Returned =>
        /\ LinuxArm64Derivations
        /\ ArtifactsCarryTriple
        /\ \A i \in DOMAIN emitted : emitted[i].kind \in {"BuildJob", "TestBuildJob"} =>
               /\ \E s \in DOMAIN source_machines : \E t \in DOMAIN target_machines :
                      emitted[i].name \in
                          { BuildJobIdentityOf(source_machines[s], target_machines[t]),
                            BuildJobIdentityOf(source_machines[s], target_machines[t]) \o "-test-build" }
               /\ \A s \in DOMAIN source_machines :
                      ~str_contains(emitted[i].name, MuslTriple(source_machines[s]))
        /\ (\E s \in DOMAIN source_machines :
               source_machines[s].os = "Linux" /\ source_machines[s].arch = "ARM64")
           /\ (\E t \in DOMAIN target_machines : target_machines[t].arch = "X86_64")
           => /\ DictHas(jobs, "unknown-linux-gnu-aarch64-x86_64")
              /\ Uploads(DictGet(jobs, "unknown-linux-gnu-aarch64-x86_64")) =
                     { "musl-1.2.3-platform-aarch64-unknown-linux-gnu-target-x86_64-linux-musl.tar.gz" }
              /\ \E k \in DOMAIN DictGet(jobs, "unknown-linux-gnu-aarch64-x86_64-test-build").steps :
                     str_contains(DictGet(jobs, "unknown-linux-gnu-aarch64-x86_64-test-build").steps[k].run,
                                  "\"@platforms//cpu:arm64\",\n        \"@platforms//os:linux\"")

\* A mapping was returned for a matrix with the source platform (Linux,
\* arm64) and the target x86_64.
C14_Witness ==
    /\ Returned
    /\ \E s \in DOMAIN source_machines :
           source_machines[s].os = "Linux" /\ source_machines[s].arch = "ARM64"
    /\ \E t \in DOMAIN target_machines : target_machines[t].arch = "X86_64"
    /\ DictHas(jobs, "unknown-linux-gnu-aarch64-x86_64")

(***************************************************************************)
(* C15                                                                     *)
(***************************************************************************)
\* The filenames the jobs of one kind upload.
UploadedBy(kind) ==
    UNION { Uploads(DictGet(jobs, id)) : id \in IdsOfKind(kind) }

\* The repository names of the releasable artifacts.
RepoNames == { repo_name(releasable_artifacts[i]) : i \in DOMAIN releasable_artifacts }

\* C15: over the (source OS, source architecture, target architecture)
\* triples of the matrix, the archive filenames are pairwise distinct, the
\* test-binary filenames are pairwise distinct, the repository names (dots
\* replaced by underscores) are pairwise distinct, and no archive filename
\* is a test-binary filename.
C15_FilenamesInjective ==
    Returned =>
        /\ \A i, j \in DOMAIN releasable_artifacts :
               i # j =>
                   /\ releasable_artifacts[i].musl_filename # releasable_artifacts[j].musl_filename
                   /\ repo_name(releasable_artifacts[i]) # repo_name(releasable_artifacts[j])
        /\ Len(releasable_artifacts) = MatrixPairs
        /\ UploadedBy("BuildJob") =
               { releasable_artifacts[i].musl_filename : i \in DOMAIN releasable_artifacts }
        /\ \A id \in IdsOfKind("BuildJob") \cup IdsOfKind("TestBuildJob") :
               Cardinality(Uploads(DictGet(jobs, id))) = 1
        /\ Cardinality(UploadedBy("BuildJob")) = MatrixPairs
        /\ Cardinality(UploadedBy("TestBuildJob")) = MatrixPairs
        /\ Cardinality(RepoNames) = MatrixPairs
        /\ \A n \in RepoNames : ~str_contains(n, ".")
        /\ UploadedBy("BuildJob") \cap UploadedBy("TestBuildJob") = {}

\* A mapping was returned for the declared 4x2 matrix.
C15_Witness ==
    /\ Returned
    /\ DeclaredMatrix
    /\ Cardinality(UploadedBy("BuildJob")) = 8
    /\ Cardinality(UploadedBy("TestBuildJob")) = 8

(***************************************************************************)
(* C16                                                                     *)
(***************************************************************************)
\* The CI runtime is running the release workflow.
RunningRelease == pc = "ci" /\ DictHas(workflow, "release")

\* The job was started by the runtime.
Started(name) == StatusOf(name) \in {"running", "succeeded", "failed"}

RECURSIVE NeedsTransitively(_, _, _)
NeedsTransitively(d, name, needed) ==
    LET direct == Range(DictGet(d, name).needs)
    IN  \/ needed \in direct
        \/ \E n \in direct : NeedsTransitively(d, n, needed)

\* check-generated is the first job of the mapping d, needs nothing, and is
\* in the transitive needs of every other job of d.
GuardsAll(d) ==
    /\ d[1].name = "check-generated"
    /\ d[1].needs = << >>
    /\ \A i \in DOMAIN d :
           i # 1 => NeedsTransitively(d, d[i].name, "check-generated")

\* C17: check-generated is registered first, needs nothing, and is in the
\* transitive needs of every other job; in a run of a workflow, no other job
\* is started unless check-generated succeeded, so none once it failed.
C17_CheckGeneratedGuardsAll ==
    /\ emitted # << >> =>
           /\ emitted[1].kind = "CheckGenerated"
           /\ emitted[1].name = "check-generated"
           /\ emitted[1].needs = << >>
    /\ Returned => GuardsAll(jobs)
    /\ pc = "ci" =>
           /\ GuardsAll(workflow)
           /\ \A i \in DOMAIN workflow :
                  (i # 1 /\ Started(workflow[i].name)) => status[1] = "succeeded"
           /\ status[1] = "failed" =>
                  \A i \in DOMAIN workflow : i # 1 => status[i] \in {"pending", "skipped"}

\* check-generated failed in a run of the release workflow, and every other
\* job was skipped.
C17_Witness ==
    /\ RunningRelease
    /\ Len(workflow) >= 7
    /\ status[1] = "failed"
    /\ \A i \in DOMAIN workflow : i # 1 => status[i] = "skipped"

(***************************************************************************)
(* C18                                                                     *)
(***************************************************************************)
\* The positions in the mapping d of the jobs that upload the artifact.
UploadersOf(d, artifact) == { u \in DOMAIN d : artifact \in Uploads(d[u]) }

\* Every artifact a job of d downloads is uploaded by exactly one job of d,
\* and that job is in the downloader's needs.
HandOffOrdered(d) ==
    \A j \in DOMAIN d : \A artifact \in Downloads(d[j]) :
        /\ Cardinality(UploadersOf(d, artifact)) = 1
        /\ \A u \in UploadersOf(d, artifact) : d[u].name \in Range(d[j].needs)

\* C18: every artifact name a job downloads is uploaded by exactly one job,
\* which is in the downloader's direct needs; so in a run of a workflow a
\* job with a download step is started only when the uploading job has
\* succeeded.
C18_DownloadAfterUpload ==
    /\ Returned => HandOffOrdered(jobs)
    /\ pc = "ci" =>
           /\ HandOffOrdered(workflow)
           /\ \A j \in DOMAIN workflow :
                  status[j] \in {"running", "succeeded", "failed"} =>
                      \A artifact \in Downloads(workflow[j]) :
                          \E u \in DOMAIN workflow :
                              /\ artifact \in Uploads(workflow[u])
                              /\ status[u] = "succeeded"

\* A test job that downloads the test binaries of two test-build jobs is
\* running.
C18_Witness ==
    /\ pc = "ci"
    /\ \E j \in DOMAIN workflow :
           /\ status[j] = "running"
           /\ Cardinality(Downloads(workflow[j])) = 2
           /\ \A artifact \in Downloads(workflow[j]) :
                  \E u \in DOMAIN workflow :
                      /\ u # j
                      /\ artifact \in Uploads(workflow[u])
                      /\ Downloads(workflow[u]) # {}

====
